---- MODULE Spec2Model ----
(***************************************************************************)
(* The Reconciler (worker) Lambda of shiftboard-bot: HandleRequest scans   *)
(* the DynamoDB table, batch-writes the payload on a cold start, and       *)
(* otherwise classifies each payload shift against the scanned snapshot,   *)
(* invoking the notification function and writing the shift for every      *)
(* change.  Every call to DynamoDB or Lambda is one step of the model, so  *)
(* that a call can fail where the code can see it fail.  The Notifier      *)
(* (notification) and the Fetcher (retriever) Lambdas are modelled the     *)
(* same way, each with a specification of its own, and PipelineSpec lets   *)
(* the Notifier run on the events the Reconciler has dispatched.           *)
(***************************************************************************)
EXTENDS Integers, Sequences, FiniteSets, TLC

\* ---------------------------------------------------------------- constants
dbPageCount == 100
dbBatchCount == 25

\* ------------------------------------------------------------------- bounds
\* timestamps of the shifts of the short payloads
MaxTime == 2
\* longest short payload
MaxLen == 2
\* invocations of one worker
MaxRounds == 2

Procs == {"w1", "w2"}

None == [absent |-> TRUE]

\* lengths of the long payloads: a full batch, and a full batch and a part of one
LongLens == {dbBatchCount, dbBatchCount + 1, dbBatchCount + 5}

Max(S) == CHOOSE x \in S : \A y \in S : y <= x
Min(S) == CHOOSE x \in S : \A y \in S : x <= y

\* identifiers of the shifts of the short payloads and of the initial table
Ids == {1, 2}
Times == 1 .. MaxTime
AllIds == 1 .. Max(LongLens \cup Ids)

\* ------------------------------------------------------------ shift records
\* shiftboard.Shift as the worker uses it: ID, Name, EndDate, Created, Updated.
\* Name, EndDate and Created of the shifts the model feeds in depend on the ID.
NameOf(id) == <<"shift", id>>

EndDateOf(id) ==
    IF id % 2 = 1
    THEN [Y |-> 2022, M |-> 6, D |-> 15, h |-> 12, m |-> 0, s |-> 0]
    ELSE [Y |-> 2022, M |-> 1, D |-> 31, h |-> 8, m |-> 30, s |-> 0]

MkShift(id, t) ==
    [ID |-> id, Name |-> NameOf(id), EndDate |-> EndDateOf(id),
     Created |-> 0, Updated |-> t]

\* ---------------------------------------------------------------- addItemTTL
\* days from 1970-01-01 to the civil date y-m-d; a day past the end of the
\* month counts on into the next month, as time.Date normalises it
DaysFromCivil(y, m, d) ==
    LET yy  == IF m <= 2 THEN y - 1 ELSE y
        era == yy \div 400
        yoe == yy - era * 400
        mp  == IF m > 2 THEN m - 3 ELSE m + 9
        doy == ((153 * mp + 2) \div 5) + d - 1
        doe == yoe * 365 + (yoe \div 4) - (yoe \div 100) + doy
    IN  era * 146097 + doe - 719468

\* time.Time.Unix of a UTC date.  Unix returns an int64; a time whose seconds
\* do not fit the 32-bit integers of the model checker (before 1902, after
\* 2037) is kept as its day count and the seconds of its day.
Unix(t) ==
    LET days == DaysFromCivil(t.Y, t.M, t.D)
        secs == t.h * 3600 + t.m * 60 + t.s
    IN  IF days > -24855 /\ days < 24855
        THEN days * 86400 + secs
        ELSE [days |-> days, secs |-> secs]

IsLeap(y) == (y % 4 = 0 /\ y % 100 # 0) \/ y % 400 = 0

\* the days of month m of year y
DaysIn(y, m) ==
    IF m = 2 THEN (IF IsLeap(y) THEN 29 ELSE 28)
    ELSE IF m \in {4, 6, 9, 11} THEN 30 ELSE 31

\* the zero time.Time, January 1 of year 1
ZeroTime == [Y |-> 1, M |-> 1, D |-> 1, h |-> 0, m |-> 0, s |-> 0]

\* time.Parse(time.RFC3339, str + "Z").  The model writes an end-date string
\* as the record of its numbers; a string that is no date has month 0.  A
\* month, day, hour, minute or second out of range is a parse error, and
\* the time returned with an error is the zero time.
ParseRFC3339(str) ==
    IF /\ str.M \in 1 .. 12
       /\ str.D \in 1 .. DaysIn(str.Y, str.M)
       /\ str.h \in 0 .. 23 /\ str.m \in 0 .. 59 /\ str.s \in 0 .. 59
    THEN [ok |-> TRUE, t |-> str]
    ELSE [ok |-> FALSE, t |-> ZeroTime]

\* a month counted as thirty days
AddDate_thirtyDays(t, years, months, days) ==
    [t EXCEPT !.Y = t.Y + years, !.D = t.D + 30 * months + days]

\* time.Time.AddDate(years, months, days): the month overflow is carried into
\* the year, the day overflow is left to the day count
AddDate(t, years, months, days) ==
    LET mm == t.M + months - 1
    IN  [t EXCEPT !.Y = t.Y + years + (mm \div 12), !.M = (mm % 12) + 1, !.D = t.D + days]

\* ShiftExt: the shift and its TTL, one month after the end date; the parse
\* error is dropped and the time that came with it is used
addItemTTL(item) ==
    LET endDate == ParseRFC3339(item.EndDate).t
        ttl     == AddDate(endDate, 0, 1, 0)
    IN  [ID |-> item.ID, Name |-> item.Name, EndDate |-> item.EndDate,
         Created |-> item.Created, Updated |-> item.Updated,
         TTL |-> Unix(ttl)]

\* attributevalue.UnmarshalListOfMaps into shiftboard.Shift: the TTL
\* attribute has no field to go to
UnmarshalShift(rec) ==
    [ID |-> rec.ID, Name |-> rec.Name, EndDate |-> rec.EndDate,
     Created |-> rec.Created, Updated |-> rec.Updated]

\* ------------------------------------------------------------------ getState
\* the first cache entry with the shift's ID, 0 if there is none
RECURSIVE FirstMatch(_, _, _)
FirstMatch(shift, cache, i) ==
    IF i > Len(cache) THEN 0
    ELSE IF cache[i].ID = shift.ID THEN i
    ELSE FirstMatch(shift, cache, i + 1)

\* a comparison that also takes equal timestamps for earlier
Before_orEqual(a, b) == a <= b

\* a comparison with its operands exchanged
Before_exchanged(a, b) == b < a

\* time.Time.Before
Before(a, b) == a < b

\* a classifier that takes every shift that is not newer for a new one
getState_unfound(shift, cache) ==
    LET i       == FirstMatch(shift, cache, 1)
        updated == i # 0 /\ Before(cache[i].Updated, shift.Updated)
    IN  IF ~updated THEN "created" ELSE "updated"

\* a classifier that reports every cached shift as updated
getState_anyFound(shift, cache) ==
    IF FirstMatch(shift, cache, 1) = 0 THEN "created" ELSE "updated"

getState(shift, cache) ==
    LET i       == FirstMatch(shift, cache, 1)
        found   == i # 0
        updated == found /\ Before(cache[i].Updated, shift.Updated)
    IN  IF ~found THEN "created"
        ELSE IF updated THEN "updated"
        ELSE ""

\* --------------------------------------------------------------- compareData
RECURSIVE compareFrom(_, _, _)
compareFrom(newData, cachedData, i) ==
    IF i > Len(newData) THEN <<>>
    ELSE LET shift == newData[i]
             state == getState(shift, cachedData)
         IN  (IF state # "" THEN <<[State |-> state, Shift |-> shift]>> ELSE <<>>)
             \o compareFrom(newData, cachedData, i + 1)

RECURSIVE Reverse(_)
Reverse(q) == IF q = <<>> THEN <<>> ELSE Append(Reverse(Tail(q)), Head(q))

\* a comparison that returns the events last shift first
compareData_reversed(newData, cachedData) == Reverse(compareFrom(newData, cachedData, 1))

compareData(newData, cachedData) == compareFrom(newData, cachedData, 1)

\* ---------------------------------------------------------- constructMessage
constructMessage(item) ==
    LET shift == item.Shift
        subject == IF item.State = "updated" THEN <<"Shift updated: ", shift.Name>>
                   ELSE IF item.State = "created" THEN <<"New shift added: ", shift.Name>>
                   ELSE <<>>
        text == IF item.State = "updated"
                THEN <<"Shift for '", shift.Name, "' was updated on ", shift.Updated>>
                ELSE IF item.State = "created"
                THEN <<"Shift has been added for '", shift.Name, "' on ", shift.Created>>
                ELSE <<>>
    IN  [Subject |-> subject, TextBody |-> text,
         HTMLBody |-> <<"<p>">> \o text \o <<"</p>">>]

\* ------------------------------------------------------------------- state
VARIABLES
    store,       \* the DynamoDB table: ID -> the item stored under it, or None
    round,       \* invocations each worker has started
    pc,          \* where each worker's HandleRequest stands
    payload,     \* the payload of the invocation
    pager,       \* the scan paginator of the invocation
    cachedData,  \* the list scanPages has built
    changeLog,   \* the change events compareData returned
    idx,         \* cold path: start of the next batch; warm path: the event in hand
    result,      \* what HandleRequest returned: "Success", "error", "" while running
    calls,       \* the DynamoDB and Lambda calls of the invocation, in order
    store0,      \* the table as it was when the invocation started
    replay,      \* the invocation repeats the payload of the successful one before it
    prev,        \* the failed invocation that this one is the retry of, or None
    ttlCase,     \* a shift handed to addItemTTL, and what addItemTTL returned
    msgCase,     \* a change event handed to constructMessage, and the messages returned
    notifier,    \* the Notifier Lambda: its invocation in progress
    fetcher      \* the Fetcher Lambda: its invocation in progress

vars == <<store, round, pc, payload, pager, cachedData, changeLog, idx, result,
          calls, store0, replay, prev, ttlCase, msgCase, notifier, fetcher>>

\* what the Reconciler does not touch
others == <<ttlCase, msgCase, notifier, fetcher>>

\* ------------------------------------------------------------------ inputs
ShortShifts == {MkShift(id, t) : id \in Ids, t \in Times}

ShortPayloads == UNION {[1 .. n -> ShortShifts] : n \in 0 .. MaxLen}

LongPayload(n) == [i \in 1 .. n |-> MkShift(i, 1)]

LongPayloads == {LongPayload(n) : n \in LongLens}

\* a table the worker has written: under each ID nothing, or the item of a shift
InitStores ==
    {[id \in AllIds |-> IF id \in Ids /\ f[id] # 0
                        THEN addItemTTL(MkShift(id, f[id])) ELSE None] :
        f \in [Ids -> {0} \cup Times]}

StoreEmpty(st) == \A id \in AllIds : st[id] = None

\* ------------------------------------------------------------- the table
\* a put that stores nothing
Put_lost(st, item) == st

\* a put that keeps the item already stored under the ID
Put_ifAbsent(st, item) == IF st[item.ID] = None THEN [st EXCEPT ![item.ID] = item] ELSE st

\* a put that clears the rest of the table
Put_alone(st, item) == [id \in AllIds |-> IF id = item.ID THEN item ELSE None]

\* PutItem: the item replaces what is stored under its ID
Put(st, item) == [st EXCEPT ![item.ID] = item]

\* the puts of a list of items, in order
RECURSIVE PutAll(_, _)
PutAll(st, items) ==
    IF items = <<>> THEN st ELSE PutAll(Put(st, Head(items)), Tail(items))

\* the IDs a scan still has to return after the key it stopped at, ascending
Remaining(st, lastKey) ==
    SelectSeq([i \in AllIds |-> i], LAMBDA id : id > lastKey /\ st[id] # None)

\* a paginator that stops after its first page
HasMorePages_firstOnly(pg) == pg.firstPage

\* ScanPaginator.HasMorePages: the first page, or a last evaluated key
HasMorePages(pg) == pg.firstPage \/ pg.lastKey # 0

\* the sizes a page may have: all that is left up to the Limit, or a single item
PageSizes(n) == IF n = 0 THEN {0} ELSE {1, Min({n, dbPageCount})}

\* ------------------------------------------------------------ writeAllToDB
\* a batch that is never cut: it runs to the end of the payload
BatchEnd_whole(start, n) == n

\* end of the batch that starts at start
BatchEnd(start, n) == IF start + dbBatchCount > n THEN n ELSE start + dbBatchCount

\* a loop step that passes over the item after the batch
NextStart_skip(start) == start + dbBatchCount + 1

\* the loop's step: start += batch
NextStart(start) == start + dbBatchCount

\* constructWriteRequest of every item of payload[start:end]
WriteRequests(pl, start) ==
    [j \in 1 .. (BatchEnd(start, Len(pl)) - start) |-> addItemTTL(pl[start + j])]

\* BatchWriteItem rejects a request that holds two items with the same key
DistinctKeys(items) ==
    Cardinality({items[a].ID : a \in 1 .. Len(items)}) = Len(items)

\* how many items of a batch BatchWriteItem wrote when it returns unprocessed
\* items: none, or all but the last (the call's record counts the rest)
Unprocessed(pl, start) == {0, BatchEnd(start, Len(pl)) - start - 1}

\* ------------------------------------------------------------------- steps
Call(api, n, arg, ok) == [api |-> api, n |-> n, arg |-> arg, ok |-> ok]

Return(p, res) ==
    /\ pc' = [pc EXCEPT ![p] = "done"]
    /\ result' = [result EXCEPT ![p] = res]

\* the Notifier and the Fetcher between invocations
NotifierIdle ==
    [pc |-> "idle", payload |-> None, src |-> None, event |-> None, sender |-> "",
     recipient |-> "", calls |-> <<>>, result |-> ""]

FetcherIdle ==
    [pc |-> "idle", email |-> "", password |-> "", stateFilter |-> <<>>,
     data |-> <<>>, calls |-> <<>>, result |-> ""]

EmptyStore == [id \in AllIds |-> None]

\* the Reconciler before its first invocation, on one of the tables stores
WorkerInit(stores) ==
    /\ store \in stores
    /\ round = [p \in Procs |-> 0]
    /\ pc = [p \in Procs |-> "idle"]
    /\ payload = [p \in Procs |-> <<>>]
    /\ pager = [p \in Procs |-> [firstPage |-> FALSE, lastKey |-> 0]]
    /\ cachedData = [p \in Procs |-> <<>>]
    /\ changeLog = [p \in Procs |-> <<>>]
    /\ idx = [p \in Procs |-> 0]
    /\ result = [p \in Procs |-> ""]
    /\ calls = [p \in Procs |-> <<>>]
    /\ store0 = [p \in Procs |-> store]
    /\ replay = [p \in Procs |-> FALSE]
    /\ prev = [p \in Procs |-> None]

Init ==
    /\ WorkerInit(InitStores)
    /\ ttlCase = None
    /\ msgCase = None
    /\ notifier = NotifierIdle
    /\ fetcher = FetcherIdle

\* the payloads an invocation is started with.  The first invocation carries
\* any short payload, or a long one when the table is empty; a later one is
\* the schedule or the platform's retry delivering the same payload again.
Payloads(p) ==
    IF pc[p] = "done" THEN {payload[p]}
    ELSE ShortPayloads \cup {pl \in LongPayloads : StoreEmpty(store)}

\* an invocation that has returned an error, as the platform's retry finds
\* it: its payload, its change events, its writes and notification calls
Invocation(p) ==
    [payload |-> payload[p], changeLog |-> changeLog[p], result |-> result[p],
     calls |-> SelectSeq(calls[p], LAMBDA c : c.api # "NextPage")]

\* HandleRequest is entered with the payload pl: nothing of the invocation
\* before is left but the table; NewScanPaginator
Invoked(p, pl) ==
    /\ pc[p] \in {"idle", "done"}
    /\ round[p] < MaxRounds
    /\ round' = [round EXCEPT ![p] = @ + 1]
    /\ replay' = [replay EXCEPT ![p] =
                    pc[p] = "done" /\ result[p] = "Success" /\ pl = payload[p]]
    /\ payload' = [payload EXCEPT ![p] = pl]
    /\ pager' = [pager EXCEPT ![p] = [firstPage |-> TRUE, lastKey |-> 0]]
    /\ cachedData' = [cachedData EXCEPT ![p] = <<>>]
    /\ changeLog' = [changeLog EXCEPT ![p] = <<>>]
    /\ idx' = [idx EXCEPT ![p] = 0]
    /\ pc' = [pc EXCEPT ![p] = "scan"]
    /\ result' = [result EXCEPT ![p] = ""]
    /\ calls' = [calls EXCEPT ![p] = <<>>]
    /\ store0' = [store0 EXCEPT ![p] = store]
    /\ UNCHANGED <<store, others>>

\* HandleRequest is invoked with an event of the Fetcher
Start(p, pl) ==
    /\ Invoked(p, pl)
    /\ prev' = [prev EXCEPT ![p] = None]

\* Lambda delivers the event of a failed asynchronous invocation again
Retry(p) ==
    /\ pc[p] = "done"
    /\ result[p] = "error"
    /\ Invoked(p, payload[p])
    /\ prev' = [prev EXCEPT ![p] = Invocation(p)]

\* a cycle that takes every snapshot for an empty one
AfterScan_cold(p, list) ==
    /\ changeLog' = changeLog
    /\ idx' = [idx EXCEPT ![p] = 0]
    /\ IF 0 < Len(payload[p])
       THEN pc' = [pc EXCEPT ![p] = "cold"] /\ result' = result
       ELSE Return(p, "Success")

\* HandleRequest once scanPages has returned list: the cold start writes the
\* payload in batches, a warm cycle walks the change events
AfterScan(p, list) ==
    IF Len(list) = 0
    THEN /\ changeLog' = changeLog
         /\ idx' = [idx EXCEPT ![p] = 0]
         /\ IF 0 < Len(payload[p])
            THEN pc' = [pc EXCEPT ![p] = "cold"] /\ result' = result
            ELSE Return(p, "Success")
    ELSE LET log == compareData(payload[p], list)
         IN  /\ changeLog' = [changeLog EXCEPT ![p] = log]
             /\ idx' = [idx EXCEPT ![p] = 1]
             /\ IF log # <<>>
                THEN pc' = [pc EXCEPT ![p] = "notify"] /\ result' = result
                ELSE Return(p, "Success")

\* a scan that returns its last page only
NextPageOK_lastPage(p, k) ==
    /\ pc[p] = "scan"
    /\ HasMorePages(pager[p])
    /\ LET rem   == Remaining(store, pager[p].lastKey)
           ids   == SubSeq(rem, 1, k)
           items == [j \in 1 .. Len(ids) |-> store[ids[j]]]
           list  == [j \in 1 .. Len(ids) |-> UnmarshalShift(items[j])]
           pg    == [firstPage |-> FALSE,
                     lastKey |-> IF k < Len(rem) THEN ids[k] ELSE 0]
       IN  /\ pager' = [pager EXCEPT ![p] = pg]
           /\ cachedData' = [cachedData EXCEPT ![p] = list]
           /\ calls' = [calls EXCEPT ![p] = Append(@, Call("NextPage", 0, items, TRUE))]
           /\ IF HasMorePages(pg)
              THEN UNCHANGED <<pc, result, changeLog, idx>>
              ELSE AfterScan(p, list)
    /\ UNCHANGED <<store, round, payload, store0, replay, prev, others>>

\* scanPages: NextPage returns a page of k items
NextPageOK(p, k) ==
    /\ pc[p] = "scan"
    /\ HasMorePages(pager[p])
    /\ LET rem   == Remaining(store, pager[p].lastKey)
           ids   == SubSeq(rem, 1, k)
           items == [j \in 1 .. Len(ids) |-> store[ids[j]]]
           list  == cachedData[p] \o [j \in 1 .. Len(ids) |-> UnmarshalShift(items[j])]
           pg    == [firstPage |-> FALSE,
                     lastKey |-> IF k < Len(rem) THEN ids[k] ELSE 0]
       IN  /\ pager' = [pager EXCEPT ![p] = pg]
           /\ cachedData' = [cachedData EXCEPT ![p] = list]
           /\ calls' = [calls EXCEPT ![p] = Append(@, Call("NextPage", 0, items, TRUE))]
           /\ IF HasMorePages(pg)
              THEN UNCHANGED <<pc, result, changeLog, idx>>
              ELSE AfterScan(p, list)
    /\ UNCHANGED <<store, round, payload, store0, replay, prev, others>>

\* scanPages: NextPage fails, HandleRequest returns the error
NextPageErr(p) ==
    /\ pc[p] = "scan"
    /\ HasMorePages(pager[p])
    /\ calls' = [calls EXCEPT ![p] = Append(@, Call("NextPage", 0, <<>>, FALSE))]
    /\ Return(p, "error")
    /\ UNCHANGED <<store, round, payload, pager, cachedData, changeLog, idx, store0, replay, prev, others>>

\* writePayloadBatch: BatchWriteItem takes the whole batch
BatchWriteOK(p) ==
    /\ pc[p] = "cold"
    /\ LET reqs == WriteRequests(payload[p], idx[p])
           next == NextStart(idx[p])
       IN  /\ DistinctKeys(reqs)
           /\ store' = PutAll(store, reqs)
           /\ calls' = [calls EXCEPT ![p] = Append(@, Call("BatchWriteItem", 0, reqs, TRUE))]
           /\ idx' = [idx EXCEPT ![p] = next]
           /\ IF next < Len(payload[p])
              THEN UNCHANGED <<pc, result>>
              ELSE Return(p, "Success")
    /\ UNCHANGED <<round, payload, pager, cachedData, changeLog, store0, replay, prev, others>>

\* writePayloadBatch: BatchWriteItem fails (as it does on two items with the
\* same key) and writes nothing
BatchWriteErr(p) ==
    /\ pc[p] = "cold"
    /\ calls' = [calls EXCEPT ![p] =
                   Append(@, Call("BatchWriteItem", 0, WriteRequests(payload[p], idx[p]), FALSE))]
    /\ Return(p, "error")
    /\ UNCHANGED <<store, round, payload, pager, cachedData, changeLog, idx, store0, replay, prev, others>>

\* unprocessed items that writePayloadBatch does not look at: the loop goes on
BatchWriteUnprocessed_ignored(p, k) ==
    /\ pc[p] = "cold"
    /\ LET reqs == WriteRequests(payload[p], idx[p])
           next == NextStart(idx[p])
       IN  /\ DistinctKeys(reqs)
           /\ store' = PutAll(store, SubSeq(reqs, 1, k))
           /\ calls' = [calls EXCEPT ![p] =
                          Append(@, Call("BatchWriteItem", Len(reqs) - k, reqs, FALSE))]
           /\ idx' = [idx EXCEPT ![p] = next]
           /\ IF next < Len(payload[p])
              THEN UNCHANGED <<pc, result>>
              ELSE Return(p, "Success")
    /\ UNCHANGED <<round, payload, pager, cachedData, changeLog, store0, replay, prev, others>>

\* writePayloadBatch: BatchWriteItem returns unprocessed items, having
\* written the k items before them
BatchWriteUnprocessed(p, k) ==
    /\ pc[p] = "cold"
    /\ LET reqs == WriteRequests(payload[p], idx[p])
       IN  /\ DistinctKeys(reqs)
           /\ store' = PutAll(store, SubSeq(reqs, 1, k))
           /\ calls' = [calls EXCEPT ![p] =
                          Append(@, Call("BatchWriteItem", Len(reqs) - k, reqs, FALSE))]
    /\ Return(p, "error")
    /\ UNCHANGED <<round, payload, pager, cachedData, changeLog, idx, store0, replay, prev, others>>

\* a loop that notifies and goes on to the next event without the write
InvokeOK_skipWrite(p) ==
    /\ pc[p] = "notify"
    /\ calls' = [calls EXCEPT ![p] =
                   Append(@, Call("Invoke", idx[p], constructMessage(changeLog[p][idx[p]]), TRUE))]
    /\ idx' = [idx EXCEPT ![p] = @ + 1]
    /\ IF idx[p] < Len(changeLog[p])
       THEN UNCHANGED <<pc, result>>
       ELSE Return(p, "Success")
    /\ UNCHANGED <<store, round, payload, pager, cachedData, changeLog, store0, replay, prev, others>>

\* sendNotification: the notification function is invoked with the message
InvokeOK(p) ==
    /\ pc[p] = "notify"
    /\ calls' = [calls EXCEPT ![p] =
                   Append(@, Call("Invoke", idx[p], constructMessage(changeLog[p][idx[p]]), TRUE))]
    /\ pc' = [pc EXCEPT ![p] = "write"]
    /\ UNCHANGED <<store, round, payload, pager, cachedData, changeLog, idx, result, store0, replay, prev, others>>

\* an Invoke failure that the loop ignores
InvokeErr_ignored(p) ==
    /\ pc[p] = "notify"
    /\ calls' = [calls EXCEPT ![p] =
                   Append(@, Call("Invoke", idx[p], constructMessage(changeLog[p][idx[p]]), FALSE))]
    /\ pc' = [pc EXCEPT ![p] = "write"]
    /\ UNCHANGED <<store, round, payload, pager, cachedData, changeLog, idx, result, store0, replay, prev, others>>

\* a failed Invoke after which the shift is written all the same
InvokeErr_written(p) ==
    /\ pc[p] = "notify"
    /\ calls' = [calls EXCEPT ![p] =
                   Append(@, Call("Invoke", idx[p], constructMessage(changeLog[p][idx[p]]), FALSE))]
    /\ store' = Put(store, addItemTTL(changeLog[p][idx[p]].Shift))
    /\ Return(p, "error")
    /\ UNCHANGED <<round, payload, pager, cachedData, changeLog, idx, store0, replay, prev, others>>

\* sendNotification: Invoke fails, HandleRequest returns the error
InvokeErr(p) ==
    /\ pc[p] = "notify"
    /\ calls' = [calls EXCEPT ![p] =
                   Append(@, Call("Invoke", idx[p], constructMessage(changeLog[p][idx[p]]), FALSE))]
    /\ Return(p, "error")
    /\ UNCHANGED <<store, round, payload, pager, cachedData, changeLog, idx, store0, replay, prev, others>>

\* writeItemToDB: PutItem stores the shift of the event, the loop moves on
PutItemOK(p) ==
    /\ pc[p] = "write"
    /\ LET item == addItemTTL(changeLog[p][idx[p]].Shift)
       IN  /\ store' = Put(store, item)
           /\ calls' = [calls EXCEPT ![p] = Append(@, Call("PutItem", idx[p], item, TRUE))]
    /\ idx' = [idx EXCEPT ![p] = @ + 1]
    /\ IF idx[p] < Len(changeLog[p])
       THEN pc' = [pc EXCEPT ![p] = "notify"] /\ result' = result
       ELSE Return(p, "Success")
    /\ UNCHANGED <<round, payload, pager, cachedData, changeLog, store0, replay, prev, others>>

\* a PutItem failure that the loop swallows
PutItemErr_swallowed(p) ==
    /\ pc[p] = "write"
    /\ calls' = [calls EXCEPT ![p] =
                   Append(@, Call("PutItem", idx[p], addItemTTL(changeLog[p][idx[p]].Shift), FALSE))]
    /\ idx' = [idx EXCEPT ![p] = @ + 1]
    /\ IF idx[p] < Len(changeLog[p])
       THEN pc' = [pc EXCEPT ![p] = "notify"] /\ result' = result
       ELSE Return(p, "Success")
    /\ UNCHANGED <<store, round, payload, pager, cachedData, changeLog, store0, replay, prev, others>>

\* writeItemToDB: PutItem fails, HandleRequest returns the error
PutItemErr(p) ==
    /\ pc[p] = "write"
    /\ calls' = [calls EXCEPT ![p] =
                   Append(@, Call("PutItem", idx[p], addItemTTL(changeLog[p][idx[p]].Shift), FALSE))]
    /\ Return(p, "error")
    /\ UNCHANGED <<store, round, payload, pager, cachedData, changeLog, idx, store0, replay, prev, others>>

\* one step of worker p
Worker(p) ==
    \/ \E pl \in Payloads(p) : Start(p, pl)
    \/ \E k \in PageSizes(Len(Remaining(store, pager[p].lastKey))) : NextPageOK(p, k)
    \/ NextPageErr(p)
    \/ BatchWriteOK(p)
    \/ BatchWriteErr(p)
    \/ \E k \in Unprocessed(payload[p], idx[p]) : BatchWriteUnprocessed(p, k)
    \/ InvokeOK(p)
    \/ InvokeErr(p)
    \/ PutItemOK(p)
    \/ PutItemErr(p)

\* the worker is invoked by one caller at a time
Next == Worker("w1")

Spec == Init /\ [][Next]_vars

\* the state of the Reconciler
workerVars == <<store, round, pc, payload, pager, cachedData, changeLog, idx,
                result, calls, store0, replay, prev>>

\* ------------------------------------------------------------- the Notifier
\* A JSON object is a function from its keys to their values; a Go string
\* that is built from pieces is the tuple of its pieces, "" the empty tuple.

\* json.Marshal of the Reconciler's message: every field is omitempty, and
\* constructMessage sets none of CharSet, Recipient and Sender
MarshalMessage(msg) ==
    LET all  == [subject |-> msg.Subject, textBody |-> msg.TextBody,
                 htmlBody |-> msg.HTMLBody]
        keys == {k \in DOMAIN all : all[k] # <<>>}
    IN  [k \in keys |-> all[k]]

\* json.Marshal of a Diff: the struct has no tags, the keys are the field names
MarshalDiff(item) == [State |-> item.State, Shift |-> item.Shift]

\* encoding/json matches a key to a field by name, letter case ignored
FoldKey(k) ==
    IF k \in {"State", "state"} THEN "state"
    ELSE IF k \in {"Shift", "shift"} THEN "shift"
    ELSE k

\* the zero shiftboard.Shift
ZeroShift ==
    [ID |-> 0, Name |-> <<>>,
     StartDate |-> [Y |-> 0, M |-> 0, D |-> 0, h |-> 0, m |-> 0, s |-> 0],
     Updated |-> 0]

\* the Lambda runtime unmarshals the event into HandleRequest's payload Diff:
\* a key that matches no field is skipped, a field that no key matches stays zero
DecodeDiff(json) ==
    LET stateKeys == {k \in DOMAIN json : FoldKey(k) = "state"}
        shiftKeys == {k \in DOMAIN json : FoldKey(k) = "shift"}
    IN  [State |-> IF stateKeys = {} THEN "" ELSE json[CHOOSE k \in stateKeys : TRUE],
         Shift |-> IF shiftKeys = {} THEN ZeroShift ELSE json[CHOOSE k \in shiftKeys : TRUE]]

\* templates that fall back to the created formats for a state they do not know
generateTemplate_fallback(state) ==
    IF state = "updated"
    THEN [Subject  |-> <<"Shift updated: ", "%s">>,
          TextBody |-> <<"Greetings, Shift for '", "%s", "' was updated on ", "%s">>,
          HtmlBody |-> <<"Greetings, <p> Shift for <a href='.../shifts/", "%s", "'>", "%s">>]
    ELSE [Subject  |-> <<"New shift added: ", "%s">>,
          TextBody |-> <<"Greetings, Shift has been added for '", "%s", "' on ", "%s">>,
          HtmlBody |-> <<"Greetings, <p> Shift has been added for <a href='.../shifts/", "%s">>]

\* templates.go: the formats of a state, %s where a verb stands; a state that
\* is no key of the map gets the zero Message
generateTemplate(state) ==
    IF state = "created"
    THEN [Subject  |-> <<"New shift added: ", "%s">>,
          TextBody |-> <<"Greetings, Shift has been added for '", "%s", "' on ", "%s",
                         ". https://m.shiftboard.com/onlocationexp/schedules/shifts/",
                         "%s", " Thank you, ShiftBoard Bot">>,
          HtmlBody |-> <<"Greetings, <p> Shift has been added for <a href='.../shifts/",
                         "%s", "'>", "%s", "</a> on <a href='.../shifts'>", "%s",
                         "</a>. </p> <p> Thank you,<br> ShiftBoard Bot </p>">>]
    ELSE IF state = "updated"
    THEN [Subject  |-> <<"Shift updated: ", "%s">>,
          TextBody |-> <<"Greetings, Shift for '", "%s", "' was updated on ", "%s",
                         ". https://m.shiftboard.com/onlocationexp/schedules/shifts/",
                         "%s", "\\n Thank you, ShiftBoard Bot">>,
          HtmlBody |-> <<"Greetings, <p> Shift for <a href='.../shifts/",
                         "%s", "'>", "%s", "</a> was updated on <a href='.../shifts'>",
                         "%s", "</a>. </p> <p> Thank you,<br> ShiftBoard Bot </p>">>]
    ELSE [Subject |-> <<>>, TextBody |-> <<>>, HtmlBody |-> <<>>]

\* fmt.Sprintf with %s verbs only: each verb takes the next argument, a verb
\* without one prints %!s(MISSING), arguments left over print %!(EXTRA ...)
RECURSIVE Sprintf(_, _)
Sprintf(format, args) ==
    IF format = <<>>
    THEN IF args = <<>> THEN <<>> ELSE <<"%!(EXTRA ", args, ")">>
    ELSE IF Head(format) = "%s"
         THEN IF args = <<>>
              THEN <<"%!s(MISSING)">> \o Sprintf(Tail(format), args)
              ELSE <<Head(args)>> \o Sprintf(Tail(format), Tail(args))
         ELSE <<Head(format)>> \o Sprintf(Tail(format), args)

\* formatDate: the start date of a created shift, the update time of an updated
\* one, in RFC1123; the map has no entry for another state
formatDate(item) ==
    IF item.State = "created"
    THEN <<"RFC1123", ParseRFC3339(item.Shift.StartDate).t>>
    ELSE IF item.State = "updated" THEN <<"RFC1123", item.Shift.Updated>>
    ELSE <<>>

\* the Notifier's constructMessage
constructMessage_notification(item) ==
    LET shift    == item.Shift
        tmplDate == formatDate(item)
        tmpl     == generateTemplate(item.State)
    IN  [Subject  |-> Sprintf(tmpl.Subject, <<shift.Name>>),
         TextBody |-> Sprintf(tmpl.TextBody, <<shift.Name, tmplDate, shift.ID>>),
         HtmlBody |-> Sprintf(tmpl.HtmlBody, <<shift.ID, shift.Name, tmplDate>>)]

\* strings.Split(name, "/") of a parameter under the path
ParamName(path, leaf) == <<"">> \o path \o <<leaf>>

Param(path, leaf, value) == [Name |-> ParamName(path, leaf), Value |-> value]

paramPath == <<"shiftboard", "notifications">>

\* what GetParametersByPath returns for the path: the sender or not, the
\* recipient or not, each with a value or the empty string, another parameter
\* or not
Optional(path, leaf, values) ==
    {<<>>} \cup {<<Param(path, leaf, v)>> : v \in values}

NotifierParams ==
    {a \o b \o c : a \in Optional(paramPath, "sender", {"", "no-reply@example.com"}),
                   b \in Optional(paramPath, "recipient", {"", "user@example.com"}),
                   c \in Optional(paramPath, "region", {"us-west-2"})}

\* the loop over the parameters: the value of the last one among the first i
\* whose name has leaf as its fourth part, or the zero value the variable has
RECURSIVE LastValue(_, _, _, _)
LastValue(params, leaf, i, zero) ==
    IF i = 0 THEN zero
    ELSE IF params[i].Name[4] = leaf THEN params[i].Value
    ELSE LastValue(params, leaf, i - 1, zero)

\* the Notifier's parseParameters: an error only for an empty list
parseParameters(params) ==
    IF Len(params) = 0
    THEN [err |-> TRUE, sender |-> "", recipient |-> ""]
    ELSE [err |-> FALSE,
          sender |-> LastValue(params, "sender", Len(params), ""),
          recipient |-> LastValue(params, "recipient", Len(params), "")]

\* a shift as a Diff carries it to the Notifier
NotifierShift(id, t) ==
    [ID |-> id, Name |-> NameOf(id), StartDate |-> EndDateOf(id), Updated |-> t]

\* the events the Notifier is invoked with: Diff objects, the messages the
\* Reconciler builds, and the empty object
NotifierEvents ==
    {MarshalDiff([State |-> st, Shift |-> NotifierShift(id, 1)]) :
        st \in {"created", "updated", ""}, id \in Ids}
    \cup {MarshalMessage(constructMessage([State |-> st, Shift |-> MkShift(id, 1)])) :
            st \in {"created", "updated"}, id \in Ids}
    \cup {[k \in {} |-> <<>>]}

\* the Notifier's HandleRequest is invoked with the event json; src is the
\* change event the Reconciler dispatched it for, if it did
NotifierStart(json, src) ==
    /\ notifier.pc \in {"idle", "done"}
    /\ notifier' = [NotifierIdle EXCEPT !.pc = "params", !.payload = json,
                                        !.src = src, !.event = DecodeDiff(json)]
    /\ UNCHANGED <<workerVars, ttlCase, msgCase, fetcher>>

\* GetParametersByPath returns params, parseParameters reads them
NotifierParamsOK(params) ==
    /\ notifier.pc = "params"
    /\ LET parsed == parseParameters(params)
           log    == Append(notifier.calls, Call("GetParametersByPath", 0, params, TRUE))
       IN  notifier' =
             IF parsed.err
             THEN [notifier EXCEPT !.calls = log, !.pc = "done", !.result = "error"]
             ELSE [notifier EXCEPT !.calls = log, !.pc = "send",
                                   !.sender = parsed.sender,
                                   !.recipient = parsed.recipient]
    /\ UNCHANGED <<workerVars, ttlCase, msgCase, fetcher>>

\* GetParametersByPath fails
NotifierParamsErr ==
    /\ notifier.pc = "params"
    /\ notifier' = [notifier EXCEPT
                      !.calls = Append(@, Call("GetParametersByPath", 0, <<>>, FALSE)),
                      !.pc = "done", !.result = "error"]
    /\ UNCHANGED <<workerVars, ttlCase, msgCase, fetcher>>

\* the SendEmailInput HandleRequest builds
EmailOf(n) ==
    LET msg == constructMessage_notification(n.event)
    IN  [Source |-> n.sender, To |-> n.recipient, Subject |-> msg.Subject,
         Text |-> msg.TextBody, Html |-> msg.HtmlBody]

\* SendEmail succeeds; SES takes no email without a source or a destination
SendEmailOK ==
    /\ notifier.pc = "send"
    /\ notifier.sender # "" /\ notifier.recipient # ""
    /\ notifier' = [notifier EXCEPT
                      !.calls = Append(@, Call("SendEmail", 0, EmailOf(notifier), TRUE)),
                      !.pc = "done", !.result = "Success"]
    /\ UNCHANGED <<workerVars, ttlCase, msgCase, fetcher>>

\* SendEmail fails
SendEmailErr ==
    /\ notifier.pc = "send"
    /\ notifier' = [notifier EXCEPT
                      !.calls = Append(@, Call("SendEmail", 0, EmailOf(notifier), FALSE)),
                      !.pc = "done", !.result = "error"]
    /\ UNCHANGED <<workerVars, ttlCase, msgCase, fetcher>>

\* one step of the Notifier once it is invoked
NotifierStep ==
    \/ \E params \in NotifierParams : NotifierParamsOK(params)
    \/ NotifierParamsErr
    \/ SendEmailOK
    \/ SendEmailErr

InitNotifier ==
    /\ WorkerInit({EmptyStore})
    /\ ttlCase = None
    /\ msgCase = None
    /\ notifier = NotifierIdle
    /\ fetcher = FetcherIdle

NextNotifier ==
    \/ \E json \in NotifierEvents : NotifierStart(json, None)
    \/ NotifierStep

SpecNotifier == InitNotifier /\ [][NextNotifier]_vars

\* ------------------------------------------- the Reconciler and the Notifier
\* Lambda delivers an event the Reconciler's Invoke has queued (the
\* invocation type is Event): the Notifier is invoked with the bytes
\* sendNotification marshalled, at any time after the call, and again when
\* Lambda retries
Deliver(p, k) ==
    /\ calls[p][k].api = "Invoke"
    /\ calls[p][k].ok
    /\ NotifierStart(MarshalMessage(calls[p][k].arg), changeLog[p][calls[p][k].n])

NextPipeline ==
    \/ Worker("w1")
    \/ \E k \in 1 .. Len(calls["w1"]) : Deliver("w1", k)
    \/ NotifierStep

PipelineSpec == Init /\ [][NextPipeline]_vars

\* ------------------------------------------- the Reconciler and its retries
\* The Fetcher invokes the worker asynchronously (InvocationTypeEvent), and
\* Lambda delivers the event of an invocation that returned an error again:
\* the first invocation takes any payload, every later one is the retry of
\* the failed invocation before it.
NextReplay ==
    \/ Worker("w1") /\ (round["w1"] = 0 \/ round' = round)
    \/ Retry("w1")

ReplaySpec == Init /\ [][NextReplay]_vars

\* --------------------------------------------- two Reconcilers on one table
\* Lambda runs a second instance of the worker while the first is still
\* running (an asynchronous event delivered twice, or a retry that overlaps):
\* each has its own paginator, list and change events, the table is shared.
\* The second invocation carries the payload of the first and starts at any
\* time after it; each instance runs once, and every call it makes succeeds:
\* what a failed call leaves behind is followed in Spec and ReplaySpec.
Succeeding(p) ==
    \/ \E k \in PageSizes(Len(Remaining(store, pager[p].lastKey))) : NextPageOK(p, k)
    \/ BatchWriteOK(p)
    \/ InvokeOK(p)
    \/ PutItemOK(p)

NextConcurrent ==
    \/ \E pl \in Payloads("w1") : round["w1"] = 0 /\ Start("w1", pl)
    \/ round["w1"] = 1 /\ round["w2"] = 0 /\ Start("w2", payload["w1"])
    \/ \E p \in Procs : Succeeding(p)

ConcurrentSpec == Init /\ [][NextConcurrent]_vars

\* -------------------------------------------------------------- the Fetcher
paramPath_retriever == <<"shiftboard", "api">>

\* a state filter is the tuple of the parts strings.Split(filter, ",") cuts it
\* into, "" the empty tuple
StateFilters == {<<"CA">>, <<"CA", "WA">>, <<"CA", "CA">>}

\* what GetParametersByPath returns for the path: each of email, password and
\* state_filter or not, email and password with a value or the empty string
FetcherParams ==
    {a \o b \o c :
        a \in Optional(paramPath_retriever, "email", {"", "user@example.com"}),
        b \in Optional(paramPath_retriever, "password", {"", "password123"}),
        c \in Optional(paramPath_retriever, "state_filter", StateFilters)}

\* the Fetcher's parseParameters: an error only for an empty list
parseParameters_retriever(params) ==
    IF Len(params) = 0
    THEN [err |-> TRUE, email |-> "", password |-> "", stateFilter |-> <<>>]
    ELSE [err |-> FALSE,
          email |-> LastValue(params, "email", Len(params), ""),
          password |-> LastValue(params, "password", Len(params), ""),
          stateFilter |-> LastValue(params, "state_filter", Len(params), <<>>)]

\* a login that does not look at its parameters
CredentialsMissing_never(email, password) == FALSE

\* apiLogin: email == "" || password == ""
CredentialsMissing(email, password) == email = "" \/ password = ""

\* a shift as ListShifts returns it: the Reconciler's fields and the location
FetchedShift(id, st) ==
    [ID |-> id, Name |-> NameOf(id), EndDate |-> EndDateOf(id), Created |-> 0,
     Updated |-> 1, Location |-> [State |-> st]]

FetchedShifts == {FetchedShift(id, st) : id \in Ids, st \in {"CA", "WA"}}

FetcherData == UNION {[1 .. n -> FetchedShifts] : n \in 0 .. MaxLen}

\* the inner loop of filterByState: the item once for each part of the filter
\* that is its state
RECURSIVE Matches(_, _, _)
Matches(item, parts, j) ==
    IF j > Len(parts) THEN <<>>
    ELSE (IF item.Location.State = parts[j] THEN <<item>> ELSE <<>>)
         \o Matches(item, parts, j + 1)

RECURSIVE filterFrom(_, _, _)
filterFrom(data, parts, i) ==
    IF i > Len(data) THEN <<>>
    ELSE Matches(data[i], parts, 1) \o filterFrom(data, parts, i + 1)

filterByState(data, filter) == filterFrom(data, filter, 1)

\* the Fetcher's HandleRequest is invoked
FetcherStart ==
    /\ fetcher.pc \in {"idle", "done"}
    /\ fetcher' = [FetcherIdle EXCEPT !.pc = "params"]
    /\ UNCHANGED <<workerVars, ttlCase, msgCase, notifier>>

\* GetParametersByPath returns params; parseParameters reads them and apiLogin
\* looks at the email and the password before it calls the API
FetcherParamsOK(params) ==
    /\ fetcher.pc = "params"
    /\ LET config == parseParameters_retriever(params)
           log    == Append(fetcher.calls, Call("GetParametersByPath", 0, params, TRUE))
       IN  fetcher' =
             IF config.err \/ CredentialsMissing(config.email, config.password)
             THEN [fetcher EXCEPT !.calls = log, !.pc = "done", !.result = "error"]
             ELSE [fetcher EXCEPT !.calls = log, !.pc = "sites",
                                  !.email = config.email,
                                  !.password = config.password,
                                  !.stateFilter = config.stateFilter]
    /\ UNCHANGED <<workerVars, ttlCase, msgCase, notifier>>

\* GetParametersByPath fails
FetcherParamsErr ==
    /\ fetcher.pc = "params"
    /\ fetcher' = [fetcher EXCEPT
                     !.calls = Append(@, Call("GetParametersByPath", 0, <<>>, FALSE)),
                     !.pc = "done", !.result = "error"]
    /\ UNCHANGED <<workerVars, ttlCase, msgCase, notifier>>

\* apiLogin: ListSites returns n sites; (*resp.Data.Sites)[0] panics on an
\* empty list, and the invocation that panics fails
ListSitesOK(n) ==
    /\ fetcher.pc = "sites"
    /\ fetcher' =
         IF n = 0
         THEN [fetcher EXCEPT !.calls = Append(@, Call("ListSites", n, <<>>, TRUE)),
                              !.pc = "done", !.result = "error"]
         ELSE [fetcher EXCEPT !.calls = Append(@, Call("ListSites", n, <<>>, TRUE)),
                              !.pc = "login"]
    /\ UNCHANGED <<workerVars, ttlCase, msgCase, notifier>>

\* apiLogin: ListSites fails
ListSitesErr ==
    /\ fetcher.pc = "sites"
    /\ fetcher' = [fetcher EXCEPT !.calls = Append(@, Call("ListSites", 0, <<>>, FALSE)),
                                  !.pc = "done", !.result = "error"]
    /\ UNCHANGED <<workerVars, ttlCase, msgCase, notifier>>

\* apiLogin: Login succeeds
LoginOK ==
    /\ fetcher.pc = "login"
    /\ fetcher' = [fetcher EXCEPT !.calls = Append(@, Call("Login", 0, <<>>, TRUE)),
                                  !.pc = "shifts"]
    /\ UNCHANGED <<workerVars, ttlCase, msgCase, notifier>>

\* apiLogin: Login fails
LoginErr ==
    /\ fetcher.pc = "login"
    /\ fetcher' = [fetcher EXCEPT !.calls = Append(@, Call("Login", 0, <<>>, FALSE)),
                                  !.pc = "done", !.result = "error"]
    /\ UNCHANGED <<workerVars, ttlCase, msgCase, notifier>>

\* readFromAPI: ListShifts returns data, which a state filter that is set cuts
ListShiftsOK(data) ==
    /\ fetcher.pc = "shifts"
    /\ fetcher' = [fetcher EXCEPT
                     !.calls = Append(@, Call("ListShifts", 0, data, TRUE)),
                     !.data = IF fetcher.stateFilter # <<>>
                              THEN filterByState(data, fetcher.stateFilter)
                              ELSE data,
                     !.pc = "invoke"]
    /\ UNCHANGED <<workerVars, ttlCase, msgCase, notifier>>

\* a fetch failure that is taken for an empty schedule
ListShiftsErr_ignored ==
    /\ fetcher.pc = "shifts"
    /\ fetcher' = [fetcher EXCEPT !.calls = Append(@, Call("ListShifts", 0, <<>>, FALSE)),
                                  !.data = <<>>, !.pc = "invoke"]
    /\ UNCHANGED <<workerVars, ttlCase, msgCase, notifier>>

\* readFromAPI: ListShifts fails
ListShiftsErr ==
    /\ fetcher.pc = "shifts"
    /\ fetcher' = [fetcher EXCEPT !.calls = Append(@, Call("ListShifts", 0, <<>>, FALSE)),
                                  !.pc = "done", !.result = "error"]
    /\ UNCHANGED <<workerVars, ttlCase, msgCase, notifier>>

\* Invoke queues the event for the Reconciler
FetcherInvokeOK ==
    /\ fetcher.pc = "invoke"
    /\ fetcher' = [fetcher EXCEPT !.calls = Append(@, Call("Invoke", 0, fetcher.data, TRUE)),
                                  !.pc = "done", !.result = "Success"]
    /\ UNCHANGED <<workerVars, ttlCase, msgCase, notifier>>

\* Invoke fails
FetcherInvokeErr ==
    /\ fetcher.pc = "invoke"
    /\ fetcher' = [fetcher EXCEPT !.calls = Append(@, Call("Invoke", 0, fetcher.data, FALSE)),
                                  !.pc = "done", !.result = "error"]
    /\ UNCHANGED <<workerVars, ttlCase, msgCase, notifier>>

InitFetcher ==
    /\ WorkerInit({EmptyStore})
    /\ ttlCase = None
    /\ msgCase = None
    /\ notifier = NotifierIdle
    /\ fetcher = FetcherIdle

NextFetcher ==
    \/ FetcherStart
    \/ \E params \in FetcherParams : FetcherParamsOK(params)
    \/ FetcherParamsErr
    \/ \E n \in {0, 1} : ListSitesOK(n)
    \/ ListSitesErr
    \/ LoginOK
    \/ LoginErr
    \/ \E data \in FetcherData : ListShiftsOK(data)
    \/ ListShiftsErr
    \/ FetcherInvokeOK
    \/ FetcherInvokeErr

SpecFetcher == InitFetcher /\ [][NextFetcher]_vars

\* ------------------------------------------------- addItemTTL on its own
\* the end-date strings handed to addItemTTL: days that every month has, days
\* that some months lack (these strings do not parse there), a leap year and a
\* common one, December for the carry into the next year, and no date at all
TTLYears == {2022, 2024}
TTLDays == {1, 15, 28, 29, 30, 31}
TTLClocks == {<<12, 0, 0>>, <<23, 59, 59>>, <<8, 30, 0>>}

EndDates ==
    {[Y |-> y, M |-> mo, D |-> d, h |-> c[1], m |-> c[2], s |-> c[3]] :
        y \in TTLYears, mo \in 1 .. 12, d \in TTLDays, c \in TTLClocks}
    \cup {[Y |-> 0, M |-> 0, D |-> 0, h |-> 0, m |-> 0, s |-> 0]}

TTLShifts ==
    {[ID |-> id, Name |-> NameOf(id), EndDate |-> e, Created |-> 0, Updated |-> 1] :
        id \in {1}, e \in EndDates}

InitTTL ==
    /\ WorkerInit({EmptyStore})
    /\ ttlCase \in {[item |-> sh, out |-> None] : sh \in TTLShifts}
    /\ msgCase = None
    /\ notifier = NotifierIdle
    /\ fetcher = FetcherIdle

\* addItemTTL is applied to the shift
ApplyTTL ==
    /\ ttlCase # None
    /\ ttlCase.out = None
    /\ ttlCase' = [ttlCase EXCEPT !.out = addItemTTL(ttlCase.item)]
    /\ UNCHANGED <<workerVars, msgCase, notifier, fetcher>>

NextTTL == ApplyTTL

SpecTTL == InitTTL /\ [][NextTTL]_vars

\* ------------------------------------------- constructMessage on its own
\* the states a change event is handed over with: the two the classifier
\* gives, the zero value, one in another letter case, and one that no
\* template knows
MsgStates == {"created", "updated", "", "Created", "deleted"}

\* the times of the shifts: creation, update and start as the tests set them
MsgCreated == [Y |-> 2022, M |-> 4, D |-> 18, h |-> 12, m |-> 0, s |-> 0]
MsgUpdated == [Y |-> 2022, M |-> 5, D |-> 11, h |-> 12, m |-> 0, s |-> 0]
MsgStart == [Y |-> 2022, M |-> 6, D |-> 15, h |-> 12, m |-> 0, s |-> 0]

\* a start-date string that is no date
NoDate == [Y |-> 0, M |-> 0, D |-> 0, h |-> 0, m |-> 0, s |-> 0]

\* shifts with every field the two constructMessage read: a shift that
\* starts after it was created, one that starts the moment it was created,
\* one whose start date does not parse, one never updated since its creation
MsgShifts ==
    {[ID |-> id, Name |-> NameOf(id), StartDate |-> sd, EndDate |-> MsgStart,
      Created |-> cr, Updated |-> up] :
        id \in Ids, sd \in {MsgStart, MsgCreated, NoDate},
        cr \in {MsgCreated}, up \in {MsgUpdated, MsgCreated}}

MsgDiffs == {[State |-> st, Shift |-> sh] : st \in MsgStates, sh \in MsgShifts}

InitMessage ==
    /\ WorkerInit({EmptyStore})
    /\ ttlCase = None
    /\ msgCase \in {[item |-> d, out |-> None] : d \in MsgDiffs}
    /\ notifier = NotifierIdle
    /\ fetcher = FetcherIdle

\* the Reconciler's and the Notifier's constructMessage, and the Notifier's
\* formatDate, are applied to the change event
ApplyMessage ==
    /\ msgCase # None
    /\ msgCase.out = None
    /\ msgCase' = [msgCase EXCEPT !.out =
                     [worker   |-> constructMessage(msgCase.item),
                      notifier |-> constructMessage_notification(msgCase.item),
                      date     |-> formatDate(msgCase.item)]]
    /\ UNCHANGED <<workerVars, ttlCase, notifier, fetcher>>

NextMessage == ApplyMessage

SpecMessage == InitMessage /\ [][NextMessage]_vars

\* -------------------------------------------------------------- properties
\* scanPages has returned without an error
ScanDone(p) == pc[p] \notin {"idle", "scan"} /\ ~HasMorePages(pager[p])

\* the cycle found a snapshot and walks the change events
WarmCycle(p) == ScanDone(p) /\ cachedData[p] # <<>>

CallsOf(p, apis) == SelectSeq(calls[p], LAMBDA c : c.api \in apis)

RECURSIVE Flatten(_)
Flatten(qs) == IF qs = <<>> THEN <<>> ELSE Head(qs) \o Flatten(Tail(qs))

ArgsOf(q) == [k \in 1 .. Len(q) |-> q[k].arg]

Positions(pl, s) == {i \in 1 .. Len(pl) : pl[i] = s}

\* the snapshot has an entry with the shift's identifier
Cached(p, s) == \E j \in 1 .. Len(cachedData[p]) : cachedData[p][j].ID = s.ID

\* ... whose updated timestamp is strictly earlier than the shift's
CachedOlder(p, s) ==
    \E j \in 1 .. Len(cachedData[p]) :
        cachedData[p][j].ID = s.ID /\ cachedData[p][j].Updated < s.Updated

\* ... whose updated timestamp is the shift's or later
CachedNotOlder(p, s) ==
    \E j \in 1 .. Len(cachedData[p]) :
        cachedData[p][j].ID = s.ID /\ cachedData[p][j].Updated >= s.Updated

\* the events of the change log that carry the shift
EventsOf(p, s) == {n \in 1 .. Len(changeLog[p]) : changeLog[p][n].Shift = s}

\* C1: on a cold start (the scan returned an empty snapshot) a successful
\* invocation has no change event and makes no notification call, and the
\* batch-write requests, laid end to end, are the payload: every payload
\* position is in exactly one request; the table then holds, under every
\* payload identifier, the item of the last shift that carries it.
C1_ColdStartWritesEachShiftOnce ==
    \A p \in Procs :
        (pc[p] = "done" /\ result[p] = "Success" /\ ScanDone(p) /\ cachedData[p] = <<>>)
        => /\ changeLog[p] = <<>>
           /\ CallsOf(p, {"Invoke", "PutItem"}) = <<>>
           /\ \A k \in 1 .. Len(calls[p]) : calls[p][k].ok
           /\ Flatten(ArgsOf(CallsOf(p, {"BatchWriteItem"})))
                = [i \in 1 .. Len(payload[p]) |-> addItemTTL(payload[p][i])]
           /\ \A i \in 1 .. Len(payload[p]) :
                \E j \in i .. Len(payload[p]) :
                    /\ payload[p][j].ID = payload[p][i].ID
                    /\ \A m \in (j + 1) .. Len(payload[p]) : payload[p][m].ID # payload[p][i].ID
                    /\ store[payload[p][i].ID] = addItemTTL(payload[p][j])

C1_Witness ==
    /\ pc["w1"] = "done" /\ result["w1"] = "Success" /\ ScanDone("w1")
    /\ cachedData["w1"] = <<>>
    /\ Len(payload["w1"]) > dbBatchCount
    /\ Len(CallsOf("w1", {"BatchWriteItem"})) = 2

\* C2: getState answers "created" for a payload shift exactly when no entry
\* of the snapshot has its identifier, whatever the snapshot read so far
\* (the empty one included); in a warm cycle the change log has a created
\* event for the shift exactly in that case.
C2_CreatedIffAbsent ==
    \A p \in Procs : \A i \in 1 .. Len(payload[p]) :
        LET s == payload[p][i]
        IN  /\ (getState(s, cachedData[p]) = "created") <=> ~Cached(p, s)
            /\ WarmCycle(p) =>
                 ((\E n \in EventsOf(p, s) : changeLog[p][n].State = "created")
                    <=> ~Cached(p, s))

C2_Witness ==
    /\ WarmCycle("w1")
    /\ \E n \in 1 .. Len(changeLog["w1"]) : changeLog["w1"][n].State = "created"
    /\ \E i \in 1 .. Len(payload["w1"]) : Cached("w1", payload["w1"][i])

\* C3: getState answers "updated" for a payload shift exactly when the
\* snapshot has an entry with its identifier and a strictly earlier updated
\* timestamp; compareData then has one updated event for each payload
\* position that holds the shift, and none otherwise.
C3_UpdatedIffCachedOlder ==
    \A p \in Procs : \A i \in 1 .. Len(payload[p]) :
        LET s == payload[p][i]
            upd == {n \in EventsOf(p, s) : changeLog[p][n].State = "updated"}
        IN  /\ (getState(s, cachedData[p]) = "updated") <=> CachedOlder(p, s)
            /\ WarmCycle(p) =>
                 Cardinality(upd) =
                    IF CachedOlder(p, s) THEN Cardinality(Positions(payload[p], s)) ELSE 0

C3_Witness ==
    /\ WarmCycle("w1")
    /\ \E n \in 1 .. Len(changeLog["w1"]) : changeLog["w1"][n].State = "updated"
    /\ \E i \in 1 .. Len(payload["w1"]) :
         /\ Cached("w1", payload["w1"][i])
         /\ ~CachedOlder("w1", payload["w1"][i])

\* the payload has another shift with the identifier of s in the change log
OtherEvent(p, s) ==
    \E n \in 1 .. Len(changeLog[p]) : changeLog[p][n].Shift.ID = s.ID

\* the calls that invoke the notification function or write the shift s
CallsFor(p, s) ==
    {k \in 1 .. Len(calls[p]) :
        /\ calls[p][k].api \in {"Invoke", "PutItem"}
        /\ changeLog[p][calls[p][k].n].Shift = s}

\* C4 as the spec states it: in a warm cycle a payload shift whose cached
\* entry is not older produces no event, no notification call and no store
\* write, and the item stored under its identifier stays what it was.
C4_UnchangedShiftRecordKept ==
    \A p \in Procs : \A i \in 1 .. Len(payload[p]) :
        LET s == payload[p][i]
        IN  (WarmCycle(p) /\ CachedNotOlder(p, s))
            => /\ EventsOf(p, s) = {}
               /\ CallsFor(p, s) = {}
               /\ store[s.ID] = store0[p][s.ID]

\* C4, amended: ... and the item stored under its identifier stays what it
\* was unless the payload holds another shift with the same identifier that
\* is a change event.
C4_UnchangedShiftLeftAlone ==
    \A p \in Procs : \A i \in 1 .. Len(payload[p]) :
        LET s == payload[p][i]
        IN  (WarmCycle(p) /\ CachedNotOlder(p, s))
            => /\ EventsOf(p, s) = {}
               /\ CallsFor(p, s) = {}
               /\ ~OtherEvent(p, s) => store[s.ID] = store0[p][s.ID]

C4_Witness ==
    /\ WarmCycle("w1") /\ pc["w1"] = "done" /\ result["w1"] = "Success"
    /\ changeLog["w1"] # <<>>
    /\ \E i \in 1 .. Len(payload["w1"]) :
         LET s == payload["w1"][i]
         IN  /\ CachedNotOlder("w1", s) /\ ~CachedOlder("w1", s)
             /\ ~OtherEvent("w1", s)
             /\ UnmarshalShift(store[s.ID]).Updated = s.Updated

\* among the shifts of the payload that share an identifier, the last one
\* has the latest updated timestamp
LastIsLatest(pl) ==
    \A i \in 1 .. Len(pl) :
        \E j \in i .. Len(pl) :
            /\ pl[j].ID = pl[i].ID
            /\ \A m \in (j + 1) .. Len(pl) : pl[m].ID # pl[i].ID
            /\ \A m \in 1 .. j : pl[m].ID = pl[i].ID => pl[m].Updated <= pl[j].Updated

\* C5 as the spec states it: an invocation that follows a successful one
\* with the identical payload has no change event and makes no notification
\* call, for every payload and every table.
C5_ReplayIsSilent ==
    \A p \in Procs :
        replay[p] => changeLog[p] = <<>> /\ CallsOf(p, {"Invoke"}) = <<>>

\* C5, amended: ... for every payload in which, among the shifts that share
\* an identifier, the last one has the latest updated timestamp (every
\* payload with pairwise distinct identifiers is one), and every table.
C5_ReplayIsSilentLastLatest ==
    \A p \in Procs :
        (replay[p] /\ LastIsLatest(payload[p]))
        => changeLog[p] = <<>> /\ CallsOf(p, {"Invoke"}) = <<>>

C5_Witness ==
    /\ replay["w1"] /\ WarmCycle("w1") /\ pc["w1"] = "done" /\ result["w1"] = "Success"
    /\ Len(payload["w1"]) >= 2
    /\ payload["w1"][1].ID # payload["w1"][2].ID
    /\ store0["w1"][payload["w1"][1].ID].Updated = payload["w1"][1].Updated

\* C6 as the spec states it: in a warm cycle the notification call for a
\* change event is issued only after the store write of that event's shift
\* has succeeded in the invocation.
C6_NotifyAfterWrite ==
    \A p \in Procs : \A k \in 1 .. Len(calls[p]) :
        calls[p][k].api = "Invoke"
        => \E m \in 1 .. (k - 1) :
              /\ calls[p][m].api = "PutItem"
              /\ calls[p][m].ok
              /\ calls[p][m].n = calls[p][k].n

\* C7 as the spec states it: when the notification call of a change event
\* fails, the invocation returns an error and the table holds the new item
\* of that event's shift.
C7_NotifyFailureKeepsRecord ==
    \A p \in Procs :
        LET c == calls[p][Len(calls[p])]
        IN  (calls[p] # <<>> /\ c.api = "Invoke" /\ ~c.ok)
            => /\ result[p] = "error"
               /\ store[changeLog[p][c.n].Shift.ID] = addItemTTL(changeLog[p][c.n].Shift)

\* C8: when a PutItem fails in a warm cycle the invocation has returned an
\* error, and the table is the table of the invocation's start with the
\* puts of the earlier change events applied in order: none is undone.
C8_PutFailureKeepsEarlierWrites ==
    \A p \in Procs :
        LET c == calls[p][Len(calls[p])]
        IN  (calls[p] # <<>> /\ c.api = "PutItem" /\ ~c.ok)
            => /\ pc[p] = "done" /\ result[p] = "error"
               /\ store = PutAll(store0[p],
                                 ArgsOf(SelectSeq(calls[p],
                                     LAMBDA d : d.api = "PutItem" /\ d.ok)))
               /\ \A n \in 1 .. (c.n - 1) :
                    \E k \in 1 .. Len(calls[p]) :
                        /\ calls[p][k].api = "PutItem" /\ calls[p][k].ok
                        /\ calls[p][k].arg = addItemTTL(changeLog[p][n].Shift)

C8_Witness ==
    LET c == calls["w1"][Len(calls["w1"])]
    IN  /\ calls["w1"] # <<>> /\ c.api = "PutItem" /\ ~c.ok
        /\ c.n >= 2
        /\ store # store0["w1"]

\* C9: a failed call is the last call of its invocation, and the invocation
\* has returned an error: nothing is written, notified or retried after it.
C9_NoCallAfterFailure ==
    \A p \in Procs : \A k \in 1 .. Len(calls[p]) :
        ~calls[p][k].ok
        => k = Len(calls[p]) /\ pc[p] = "done" /\ result[p] = "error"

C9_Witness ==
    /\ Len(calls["w1"]) >= 4
    /\ ~calls["w1"][Len(calls["w1"])].ok
    /\ calls["w1"][Len(calls["w1"])].api = "Invoke"
    /\ Len(changeLog["w1"]) > calls["w1"][Len(calls["w1"])].n

\* C10: the change log is the payload's changed shifts in payload order, and
\* the calls of the warm cycle are Invoke and PutItem of the first event,
\* then of the second, and so on: call 2n-1 notifies event n, call 2n
\* writes it.
C10_EventsInPayloadOrder ==
    \A p \in Procs :
        WarmCycle(p) =>
            LET changed == SelectSeq(payload[p], LAMBDA s : ~CachedNotOlder(p, s))
                warm    == CallsOf(p, {"Invoke", "PutItem"})
            IN  /\ [n \in 1 .. Len(changeLog[p]) |-> changeLog[p][n].Shift] = changed
                /\ \A m \in 1 .. Len(warm) :
                     /\ warm[m].n = (m + 1) \div 2
                     /\ warm[m].n <= Len(changeLog[p])
                     /\ IF m % 2 = 1
                        THEN /\ warm[m].api = "Invoke"
                             /\ warm[m].arg = constructMessage(changeLog[p][warm[m].n])
                        ELSE /\ warm[m].api = "PutItem"
                             /\ warm[m].arg = addItemTTL(changeLog[p][warm[m].n].Shift)
                     /\ m < Len(warm) => warm[m].ok

C10_Witness ==
    /\ WarmCycle("w1") /\ pc["w1"] = "done" /\ result["w1"] = "Success"
    /\ Len(changeLog["w1"]) >= 2
    /\ changeLog["w1"][1].Shift # changeLog["w1"][2].Shift
    /\ Len(CallsOf("w1", {"Invoke", "PutItem"})) = 2 * Len(changeLog["w1"])
    /\ Len(payload["w1"]) > Len(changeLog["w1"])

\* the k-th chunk of the payload: the shifts (k-1)*25+1 .. k*25, cut at the end
Chunk(pl, k) ==
    LET first == (k - 1) * dbBatchCount
        last  == IF k * dbBatchCount > Len(pl) THEN Len(pl) ELSE k * dbBatchCount
    IN  [j \in 1 .. (last - first) |-> addItemTTL(pl[first + j])]

\* C11: on the cold-start path the k-th batch-write call carries the k-th
\* chunk of the payload: at least one item and at most 25, exactly 25 when
\* another call follows; when every call has succeeded and the invocation
\* has returned, there are ceil(n/25) calls (none for n = 0) and the
\* batches laid end to end are the payload.
C11_BatchesAreChunks ==
    \A p \in Procs :
        (ScanDone(p) /\ cachedData[p] = <<>>)
        => LET bw == CallsOf(p, {"BatchWriteItem"})
               n  == Len(payload[p])
           IN  /\ \A k \in 1 .. Len(bw) :
                    /\ bw[k].arg = Chunk(payload[p], k)
                    /\ Len(bw[k].arg) >= 1
                    /\ Len(bw[k].arg) <= dbBatchCount
                    /\ k < Len(bw) => Len(bw[k].arg) = dbBatchCount
               /\ (pc[p] = "done" /\ result[p] = "Success")
                    => /\ Len(bw) = (n + dbBatchCount - 1) \div dbBatchCount
                       /\ Flatten(ArgsOf(bw)) = [i \in 1 .. n |-> addItemTTL(payload[p][i])]

C11_Witness ==
    LET bw == CallsOf("w1", {"BatchWriteItem"})
    IN  /\ pc["w1"] = "done" /\ result["w1"] = "Success"
        /\ Len(payload["w1"]) = dbBatchCount + 5
        /\ Len(bw) = 2
        /\ Len(bw[1].arg) = dbBatchCount
        /\ Len(bw[2].arg) = 5

\* C12: a batch-write call that reports unprocessed items is the last call
\* of its invocation, and the invocation has returned an error: no later
\* batch is issued, whatever the call has written.
C12_UnprocessedItemsFail ==
    \A p \in Procs : \A k \in 1 .. Len(calls[p]) :
        (calls[p][k].api = "BatchWriteItem" /\ calls[p][k].n > 0)
        => /\ k = Len(calls[p])
           /\ pc[p] = "done"
           /\ result[p] = "error"

C12_Witness ==
    LET c == calls["w1"][Len(calls["w1"])]
    IN  /\ calls["w1"] # <<>>
        /\ c.api = "BatchWriteItem" /\ c.n = 1
        /\ Len(c.arg) = dbBatchCount
        /\ Len(payload["w1"]) > dbBatchCount
        /\ store # store0["w1"]

\* the table read in key order, as a scan that nothing interrupts returns it
Snapshot(st) ==
    LET ids == Remaining(st, 0)
    IN  [j \in 1 .. Len(ids) |-> UnmarshalShift(st[ids[j]])]

\* C13: every write and every notification call comes after the last page
\* read, and the paginator then has no page left; while the scan runs the
\* table is untouched; the list the scan returns is the table of the
\* invocation's start, and every change event is the classification of its
\* shift against that list, whatever the cycle has written since; a failed
\* page read is the only call but for the page reads before it, the table
\* is untouched and the invocation has returned an error.
C13_ScanBeforeAnythingElse ==
    \A p \in Procs :
        /\ \A k \in 1 .. Len(calls[p]) :
             calls[p][k].api # "NextPage"
             => /\ ScanDone(p)
                /\ \A m \in k .. Len(calls[p]) : calls[p][m].api # "NextPage"
        /\ pc[p] = "scan" => store = store0[p]
        /\ ScanDone(p) => cachedData[p] = Snapshot(store0[p])
        /\ WarmCycle(p) =>
             \A n \in 1 .. Len(changeLog[p]) :
                changeLog[p][n].State = getState(changeLog[p][n].Shift, Snapshot(store0[p]))
        /\ \A k \in 1 .. Len(calls[p]) :
             (calls[p][k].api = "NextPage" /\ ~calls[p][k].ok)
             => /\ pc[p] = "done" /\ result[p] = "error"
                /\ CallsOf(p, {"BatchWriteItem", "PutItem", "Invoke"}) = <<>>
                /\ store = store0[p]

C13_Witness ==
    /\ WarmCycle("w1") /\ pc["w1"] = "done" /\ result["w1"] = "Success"
    /\ Len(CallsOf("w1", {"NextPage"})) >= 2
    /\ Len(changeLog["w1"]) = 2
    /\ changeLog["w1"][1].Shift = changeLog["w1"][2].Shift
    /\ changeLog["w1"][2].State = "updated"
    /\ getState(changeLog["w1"][2].Shift, Snapshot(store)) = ""

\* C14: when a warm cycle has returned "Success", every change event has
\* exactly one notification call and exactly one put call, there is no
\* other write, and a payload shift that is no change event has neither.
C14_OneNotifyOneWritePerEvent ==
    \A p \in Procs :
        (WarmCycle(p) /\ pc[p] = "done" /\ result[p] = "Success")
        => /\ Len(CallsOf(p, {"Invoke"})) = Len(changeLog[p])
           /\ Len(CallsOf(p, {"PutItem"})) = Len(changeLog[p])
           /\ CallsOf(p, {"BatchWriteItem"}) = <<>>
           /\ \A n \in 1 .. Len(changeLog[p]) : \A api \in {"Invoke", "PutItem"} :
                Cardinality({k \in 1 .. Len(calls[p]) :
                                calls[p][k].api = api /\ calls[p][k].n = n}) = 1
           /\ \A i \in 1 .. Len(payload[p]) :
                getState(payload[p][i], cachedData[p]) = ""
                => CallsFor(p, payload[p][i]) = {}

C14_Witness ==
    /\ WarmCycle("w1") /\ pc["w1"] = "done" /\ result["w1"] = "Success"
    /\ Len(payload["w1"]) = 2
    /\ Len(changeLog["w1"]) = 1
    /\ Len(CallsOf("w1", {"Invoke"})) = 1
    /\ Len(CallsOf("w1", {"PutItem"})) = 1

\* the shifts of the payload have pairwise distinct identifiers
DistinctIds(pl) == \A i, j \in 1 .. Len(pl) : pl[i].ID = pl[j].ID => i = j

\* C15: when a warm cycle whose payload has pairwise distinct identifiers
\* has returned "Success", the table holds under the identifier of every
\* change event the item of the incoming shift, its updated timestamp and
\* its TTL, whatever was stored there before.
C15_StoreHoldsIncomingShift ==
    \A p \in Procs :
        (WarmCycle(p) /\ pc[p] = "done" /\ result[p] = "Success" /\ DistinctIds(payload[p]))
        => \A n \in 1 .. Len(changeLog[p]) :
              LET s == changeLog[p][n].Shift
              IN  /\ store[s.ID] = addItemTTL(s)
                  /\ store[s.ID].Updated = s.Updated
                  /\ store[s.ID].TTL = Unix(AddDate(s.EndDate, 0, 1, 0))

C15_Witness ==
    /\ WarmCycle("w1") /\ pc["w1"] = "done" /\ result["w1"] = "Success"
    /\ DistinctIds(payload["w1"])
    /\ \E n \in 1 .. Len(changeLog["w1"]) :
         LET s == changeLog["w1"][n].Shift
         IN  /\ changeLog["w1"][n].State = "updated"
             /\ store0["w1"][s.ID] # None
             /\ store0["w1"][s.ID] # store[s.ID]
    /\ \E n \in 1 .. Len(changeLog["w1"]) : changeLog["w1"][n].State = "created"

\* the same day and time of day in the month after t's (a day the month may lack)
NextMonthSameDay(t) ==
    [t EXCEPT !.Y = IF t.M = 12 THEN t.Y + 1 ELSE t.Y,
              !.M = IF t.M = 12 THEN 1 ELSE t.M + 1]

\* the shift that went in, as the ShiftExt that came out carries it
ShiftOf(ext) ==
    [ID |-> ext.ID, Name |-> ext.Name, EndDate |-> ext.EndDate,
     Created |-> ext.Created, Updated |-> ext.Updated]

TTLExample == [Y |-> 2022, M |-> 6, D |-> 15, h |-> 12, m |-> 0, s |-> 0]

\* C16 as the spec states it: for a shift whose end date parses, the TTL is
\* the Unix time of the date exactly one calendar month after the end date,
\* the same day and time of day in the following month; every other field
\* is unchanged; for 2022-06-15T12:00:00 the TTL is 1657886400.
C16_TTLOneCalendarMonth ==
    (ttlCase # None /\ ttlCase.out # None /\ ParseRFC3339(ttlCase.item.EndDate).ok)
    => LET e    == ttlCase.item.EndDate
           next == NextMonthSameDay(e)
       IN  /\ ParseRFC3339(next).ok
           /\ ttlCase.out.TTL = Unix(next)
           /\ ShiftOf(ttlCase.out) = ttlCase.item
           /\ e = TTLExample => ttlCase.out.TTL = 1657886400

\* C16, amended: ... the TTL is the Unix time of the same day and time of
\* day in the following month, and when that month is too short for the
\* day, of the day that many days past its end, in the month after it
\* (2022-01-31 gives 2022-03-03); that is the end date's Unix time plus the
\* length of the end date's month; every other field is unchanged; for
\* 2022-06-15T12:00:00 the TTL is 1657886400.
C16_TTLOneMonthDayCarried ==
    (ttlCase # None /\ ttlCase.out # None /\ ParseRFC3339(ttlCase.item.EndDate).ok)
    => LET e    == ttlCase.item.EndDate
           next == NextMonthSameDay(e)
           len  == DaysIn(next.Y, next.M)
           then == IF e.D <= len THEN next
                   ELSE [NextMonthSameDay(next) EXCEPT !.D = e.D - len]
       IN  /\ ParseRFC3339(then).ok
           /\ ttlCase.out.TTL = Unix(then)
           /\ ttlCase.out.TTL = Unix(e) + 86400 * DaysIn(e.Y, e.M)
           /\ ShiftOf(ttlCase.out) = ttlCase.item
           /\ e = TTLExample => ttlCase.out.TTL = 1657886400

C16_Witness ==
    /\ ttlCase # None /\ ttlCase.out # None
    /\ ttlCase.item.EndDate = TTLExample
    /\ ttlCase.out.TTL = 1657886400

\* the list of parameters has none with the name leaf
Lacks(params, leaf) == \A i \in 1 .. Len(params) : params[i].Name[4] # leaf

\* C17 as the spec states it: when the parameter store's response lacks the
\* sender or the recipient (an empty response lacks both), the Notifier's
\* invocation has returned an error and has made no SendEmail call.
C17_NotifierConfigErrorsFatal ==
    \A k \in 1 .. Len(notifier.calls) :
        LET c == notifier.calls[k]
        IN  (c.api = "GetParametersByPath" /\ c.ok
                /\ (Lacks(c.arg, "sender") \/ Lacks(c.arg, "recipient")))
            => /\ notifier.pc = "done"
               /\ notifier.result = "error"
               /\ \A m \in 1 .. Len(notifier.calls) : notifier.calls[m].api # "SendEmail"

\* the subject the Reconciler gives the change event
SubjectOf(item) ==
    IF item.State = "created" THEN <<"New shift added: ", item.Shift.Name>>
    ELSE <<"Shift updated: ", item.Shift.Name>>

\* C20 as the spec states it: an email the Notifier has sent for a change
\* event the Reconciler dispatched has the subject of the event's
\* classification and shift name.
C20_EmailSubjectReflectsEvent ==
    \A k \in 1 .. Len(notifier.calls) :
        LET c == notifier.calls[k]
        IN  (c.api = "SendEmail" /\ c.ok /\ notifier.src # None)
            => /\ Len(c.arg.Subject) = 2
               /\ c.arg.Subject = SubjectOf(notifier.src)

\* the list of parameters has none with the name leaf and a value
NoValue(params, leaf) ==
    \A i \in 1 .. Len(params) : params[i].Name[4] = leaf => params[i].Value = ""

FetcherCallsOf(apis) == SelectSeq(fetcher.calls, LAMBDA c : c.api \in apis)

C19_InvokeOnceAfterAllSteps ==
    LET order == <<"GetParametersByPath", "ListSites", "Login", "ListShifts", "Invoke">>
        n     == Len(fetcher.calls)
    IN  /\ n <= 5
        /\ \A k \in 1 .. n :
             /\ fetcher.calls[k].api = order[k]
             /\ k < n => fetcher.calls[k].ok
             /\ ~fetcher.calls[k].ok => fetcher.pc = "done" /\ fetcher.result = "error"
        /\ Len(FetcherCallsOf({"Invoke"})) <= 1
        /\ fetcher.pc = "done" =>
             (fetcher.result = "Success" <=> (n = 5 /\ fetcher.calls[5].ok))
        /\ fetcher.pc = "done" => fetcher.result \in {"Success", "error"}

C19_Witness ==
    /\ fetcher.pc = "done" /\ fetcher.result = "Success"
    /\ Len(fetcher.calls) = 5
    /\ fetcher.calls[5].api = "Invoke"
    /\ fetcher.stateFilter # <<>>
    /\ fetcher.calls[5].arg # fetcher.calls[4].arg

\* strings.HasPrefix of a string given by its pieces: the first piece is
\* the prefix followed by ": "
HasPrefix(str, prefix) ==
    /\ Len(str) > 0
    /\ \/ prefix = "New shift added" /\ Head(str) = "New shift added: "
       \/ prefix = "Shift updated" /\ Head(str) = "Shift updated: "

\* C21: the subject that constructMessage gives a change event, the
\* Reconciler's and the Notifier's alike, begins with "New shift added" when
\* the state is "created" and with "Shift updated" when it is "updated", and
\* begins with neither for any other state.
C21_SubjectPrefixByState ==
    (msgCase # None /\ msgCase.out # None)
    => \A subject \in {msgCase.out.worker.Subject, msgCase.out.notifier.Subject} :
          /\ msgCase.item.State = "created" => HasPrefix(subject, "New shift added")
          /\ msgCase.item.State = "updated" => HasPrefix(subject, "Shift updated")
          /\ msgCase.item.State \notin {"created", "updated"}
               => /\ ~HasPrefix(subject, "New shift added")
                  /\ ~HasPrefix(subject, "Shift updated")

C21_Witness ==
    /\ msgCase # None /\ msgCase.out # None
    /\ msgCase.item.State = "deleted"
    /\ msgCase.out.worker.Subject = <<>>
    /\ msgCase.out.notifier.Subject # <<>>

\* time.Time.Format(time.RFC1123) of a time
RFC1123(t) == <<"RFC1123", t>>

\* C22 as the spec states it: formatDate gives a change event in state
\* "created" the shift's Created timestamp in RFC1123 and one in state
\* "updated" the shift's Updated timestamp in RFC1123, and the string is not
\* empty in either state.
C22_FormatDateCreatedUpdated ==
    (msgCase # None /\ msgCase.out # None)
    => /\ msgCase.item.State = "created"
            => msgCase.out.date = RFC1123(msgCase.item.Shift.Created)
       /\ msgCase.item.State = "updated"
            => msgCase.out.date = RFC1123(msgCase.item.Shift.Updated)
       /\ msgCase.item.State \in {"created", "updated"} => msgCase.out.date # <<>>

\* the shifts of data whose location state is one of the parts of the filter
InStates(data, parts) ==
    SelectSeq(data, LAMBDA item : \E j \in 1 .. Len(parts) : item.Location.State = parts[j])

\* C23 as the spec states it: once ListShifts has returned, the collection
\* the Fetcher forwards is, under a state filter, exactly the fetched shifts
\* whose location state is one of the filter's entries, in the order
\* fetched and each at most once, so never longer than what was fetched;
\* without a filter it is the fetched collection itself.
C23_FilterKeepsMatchingShiftsOnce ==
    (Len(fetcher.calls) >= 4 /\ fetcher.calls[4].ok)
    => LET fetched == fetcher.calls[4].arg
       IN  IF fetcher.stateFilter = <<>>
           THEN fetcher.data = fetched
           ELSE /\ fetcher.data = InStates(fetched, fetcher.stateFilter)
                /\ Len(fetcher.data) <= Len(fetched)

\* the shifts of a page as scanPages decodes them
PageItems(c) == [j \in 1 .. Len(c.arg) |-> UnmarshalShift(c.arg[j])]

\* C24: the list scanPages has built is the shifts of the pages read so far,
\* page after page; a page is read only while HasMorePages is true, and the
\* scan has returned without an error only when it is false; a page read
\* that fails is the last call of the invocation, which has returned an
\* error: no further page is read.
C24_ScanConcatenatesPages ==
    \A p \in Procs :
        LET pages == CallsOf(p, {"NextPage"})
        IN  /\ cachedData[p] = Flatten([k \in 1 .. Len(pages) |-> PageItems(pages[k])])
            /\ pc[p] = "scan" => HasMorePages(pager[p])
            /\ (pc[p] \notin {"idle", "scan"} /\ \A k \in 1 .. Len(pages) : pages[k].ok)
                 => /\ ~HasMorePages(pager[p])
                    /\ Len(pages) >= 1
            /\ \A k \in 1 .. Len(pages) :
                 ~pages[k].ok
                 => /\ k = Len(pages)
                    /\ Len(calls[p]) = Len(pages)
                    /\ pc[p] = "done" /\ result[p] = "error"

C24_Witness ==
    LET pages == CallsOf("w1", {"NextPage"})
    IN  /\ ScanDone("w1")
        /\ Len(pages) >= 3
        /\ \A k \in 1 .. 3 : pages[k].ok /\ Len(pages[k].arg) = 1
        /\ SubSeq(cachedData["w1"], 1, 3)
             = <<PageItems(pages[1])[1], PageItems(pages[2])[1], PageItems(pages[3])[1]>>

\* a shift version: the identifier and the updated timestamp
Version(s) == <<s.ID, s.Updated>>

\* the versions an invocation with the change events log and the calls cs
\* has notified: those whose Invoke succeeded
NotifiedIn(log, cs) ==
    {Version(log[cs[k].n].Shift) :
        k \in {j \in 1 .. Len(cs) : cs[j].api = "Invoke" /\ cs[j].ok}}

\* C25 as the spec states it: an invocation that repeats the payload
\* (pairwise distinct identifiers) of a failed invocation notifies no shift
\* version that the failed invocation has notified successfully.
C25_ReplayNeverRenotifies ==
    \A p \in Procs :
        (prev[p] # None /\ prev[p].result = "error" /\ prev[p].payload = payload[p]
            /\ DistinctIds(payload[p]))
        => NotifiedIn(prev[p].changeLog, prev[p].calls)
             \cap NotifiedIn(changeLog[p], calls[p]) = {}

\* the last of the calls cs is a notification call that failed
FailedNotify(cs) ==
    cs # <<>> /\ cs[Len(cs)].api = "Invoke" /\ ~cs[Len(cs)].ok

\* the writes and notification calls of the invocation
WarmCalls(p) == CallsOf(p, {"Invoke", "PutItem", "BatchWriteItem"})

\* C26 as the spec states it: when the notification call of a change event
\* fails, the record stored under the event's identifier is the one of the
\* invocation's start; the next invocation with the same payload has the
\* same change event for the shift and, once its scan has returned, its
\* first call is the notification of a change event.
C26_FailedNotifyReplayed ==
    \A p \in Procs :
        /\ FailedNotify(calls[p])
             => LET s == changeLog[p][calls[p][Len(calls[p])].n].Shift
                IN  store[s.ID] = store0[p][s.ID]
        /\ (prev[p] # None /\ FailedNotify(prev[p].calls) /\ ScanDone(p))
             => LET event == prev[p].changeLog[prev[p].calls[Len(prev[p].calls)].n]
                IN  /\ \E n \in 1 .. Len(changeLog[p]) : changeLog[p][n] = event
                    /\ IF WarmCalls(p) = <<>>
                       THEN pc[p] = "notify"
                       ELSE WarmCalls(p)[1].api = "Invoke"

\* C26, amended: for a payload with pairwise distinct identifiers, when the
\* notification call of a change event fails, the record stored under the
\* event's identifier is the one of the invocation's start; the change
\* events of the next invocation with the same payload are then the failed
\* event and those after it, unchanged, and once its scan has returned its
\* first call is the notification of the failed event.
C26_FailedNotifyReplayedDistinct ==
    \A p \in Procs :
        DistinctIds(payload[p]) =>
        /\ FailedNotify(calls[p])
             => LET s == changeLog[p][calls[p][Len(calls[p])].n].Shift
                IN  store[s.ID] = store0[p][s.ID]
        /\ (prev[p] # None /\ FailedNotify(prev[p].calls) /\ ScanDone(p))
             => LET n == prev[p].calls[Len(prev[p].calls)].n
                IN  /\ changeLog[p] = SubSeq(prev[p].changeLog, n, Len(prev[p].changeLog))
                    /\ IF WarmCalls(p) = <<>>
                       THEN pc[p] = "notify" /\ idx[p] = 1
                       ELSE /\ WarmCalls(p)[1].api = "Invoke"
                            /\ WarmCalls(p)[1].n = 1
                            /\ WarmCalls(p)[1].arg = constructMessage(prev[p].changeLog[n])

C26_Witness ==
    /\ prev["w1"] # None /\ FailedNotify(prev["w1"].calls)
    /\ DistinctIds(payload["w1"])
    /\ prev["w1"].calls[Len(prev["w1"].calls)].n = 2
    /\ pc["w1"] = "done" /\ result["w1"] = "Success"
    /\ Len(changeLog["w1"]) = 1
    /\ changeLog["w1"][1] = prev["w1"].changeLog[2]
    /\ Len(CallsOf("w1", {"Invoke"})) = 1

\* C27 as the spec states it: an invocation that repeats the payload of a
\* cold start that failed after a batch was written has no change event and
\* makes no notification call.
C27_ColdStartStaysSilent ==
    \A p \in Procs :
        (/\ prev[p] # None /\ prev[p].result = "error" /\ prev[p].payload = payload[p]
         /\ Len(payload[p]) > dbBatchCount
         /\ \E k \in 1 .. Len(prev[p].calls) :
               prev[p].calls[k].api = "BatchWriteItem" /\ prev[p].calls[k].ok)
        => changeLog[p] = <<>> /\ CallsOf(p, {"Invoke"}) = <<>>

\* the identifiers of the payload's shifts
PayloadIds(pl) == {pl[i].ID : i \in 1 .. Len(pl)}

\* C28: the record stored under an identifier that is none of the
\* payload's is, throughout the invocation, the record of the invocation's
\* start; no change event, no notification and no write carries such an
\* identifier.
C28_OtherRecordsUntouched ==
    \A p \in Procs :
        LET ids == PayloadIds(payload[p])
        IN  /\ pc[p] # "idle" => \A id \in AllIds \ ids : store[id] = store0[p][id]
            /\ \A n \in 1 .. Len(changeLog[p]) : changeLog[p][n].Shift.ID \in ids
            /\ \A k \in 1 .. Len(calls[p]) :
                 /\ calls[p][k].api = "PutItem" => calls[p][k].arg.ID \in ids
                 /\ calls[p][k].api = "BatchWriteItem"
                      => \A j \in 1 .. Len(calls[p][k].arg) : calls[p][k].arg[j].ID \in ids

C28_Witness ==
    /\ WarmCycle("w1") /\ pc["w1"] = "done" /\ result["w1"] = "Success"
    /\ store # store0["w1"]
    /\ \E id \in Ids \ PayloadIds(payload["w1"]) :
         /\ store0["w1"][id] # None
         /\ store[id] = store0["w1"][id]
         /\ \E j \in 1 .. Len(cachedData["w1"]) : cachedData["w1"][j].ID = id

\* the table before the k-th call of the invocation: the puts that
\* succeeded before it, applied to the table of the invocation's start
StoreBefore(p, k) ==
    PutAll(store0[p],
           ArgsOf(SelectSeq(SubSeq(calls[p], 1, k - 1),
                            LAMBDA c : c.api = "PutItem" /\ c.ok)))

\* every put of the invocation that replaces a record stores a strictly
\* later updated timestamp, and no record of the table has an earlier
\* updated timestamp than at the invocation's start
WritesOnlyLater(p) ==
    /\ \A k \in 1 .. Len(calls[p]) :
         (calls[p][k].api = "PutItem" /\ calls[p][k].ok)
         => LET item == calls[p][k].arg
                old  == StoreBefore(p, k)[item.ID]
            IN  old # None => old.Updated < item.Updated
    /\ \A id \in AllIds :
         (pc[p] # "idle" /\ store0[p][id] # None)
         => store[id] # None /\ store0[p][id].Updated <= store[id].Updated

\* C29 as the spec states it: every store write of an identifier that has a
\* record replaces it with one whose updated timestamp is strictly later,
\* and the updated timestamp stored for an identifier never decreases.
C29_UpdatedNeverDecreases ==
    \A p \in Procs : WritesOnlyLater(p)

\* C29, amended: ... for every payload with pairwise distinct identifiers.
C29_UpdatedNeverDecreasesDistinct ==
    \A p \in Procs : DistinctIds(payload[p]) => WritesOnlyLater(p)

C29_Witness ==
    /\ WarmCycle("w1") /\ pc["w1"] = "done" /\ result["w1"] = "Success"
    /\ DistinctIds(payload["w1"])
    /\ Len(payload["w1"]) = 2
    /\ \E k \in 1 .. Len(calls["w1"]) :
         /\ calls["w1"][k].api = "PutItem" /\ calls["w1"][k].ok
         /\ StoreBefore("w1", k)[calls["w1"][k].arg.ID] # None
         /\ store0["w1"][calls["w1"][k].arg.ID].Updated < store[calls["w1"][k].arg.ID].Updated
    /\ \E i \in 1 .. 2 : getState(payload["w1"][i], cachedData["w1"]) = ""

\* the table after an invocation with the payload pl that ran alone on the
\* table st and returned "Success"
Reconcile(st, pl) ==
    IF StoreEmpty(st)
    THEN PutAll(st, [i \in 1 .. Len(pl) |-> addItemTTL(pl[i])])
    ELSE LET log == compareData(pl, Snapshot(st))
         IN  PutAll(st, [n \in 1 .. Len(log) |-> addItemTTL(log[n].Shift)])

\* the successful notification calls, of either invocation, for the version v
NotifyCalls(v) ==
    {<<p, k>> \in Procs \X (1 .. Max({Len(calls[q]) : q \in Procs})) :
        /\ k <= Len(calls[p])
        /\ calls[p][k].api = "Invoke" /\ calls[p][k].ok
        /\ Version(changeLog[p][calls[p][k].n].Shift) = v}

\* both invocations have returned "Success"
BothDone == \A p \in Procs : pc[p] = "done" /\ result[p] = "Success"

====
